---- MODULE Spec2Model ----
(***************************************************************************)
(* Model of src/client.py: MCPClient.connect_and_chat, chat_loop and       *)
(* process_query.  The two remote endpoints (the Groq completion endpoint  *)
(* and the MCP tool server) are the environment: every call to them is a   *)
(* step whose outcome (a value or an exception) is chosen by \E.           *)
(***************************************************************************)
EXTENDS Integers, Sequences, FiniteSets, TLC

\* ------------------------------------------------------------------ bounds

\* Largest number of tool calls the model puts in one completion response.
MaxToolCalls == 2

\* Largest number of queries the user enters in one session.
MaxQueries == 2

\* ------------------------------------------------------- python values

\* Optional values: None is the empty tuple, a present value v is <<v>>.
None == <<>>
Some(v) == <<v>>

\* Strings are sequences of one-character strings.
Whitespace == {" "}

RECURSIVE LStrip(_)
LStrip(s) ==
  IF s # <<>> /\ Head(s) \in Whitespace THEN LStrip(Tail(s)) ELSE s

RECURSIVE RStrip(_)
RStrip(s) ==
  IF s # <<>> /\ s[Len(s)] \in Whitespace
    THEN RStrip(SubSeq(s, 1, Len(s) - 1))
    ELSE s

\* str.strip()
Strip(s) == RStrip(LStrip(s))

LowerChar(c) ==
  CASE c = "Q" -> "q"
    [] c = "U" -> "u"
    [] c = "I" -> "i"
    [] c = "T" -> "t"
    [] c = "H" -> "h"
    [] OTHER -> c

\* A comparison that keeps the case.
LowerNothing(s) == s

\* str.lower()
Lower(s) == [i \in 1..Len(s) |-> LowerChar(s[i])]

RECURSIVE Join(_)
\* "".join(parts)
Join(parts) ==
  IF parts = <<>> THEN <<>> ELSE Head(parts) \o Join(Tail(parts))

\* Truthiness of an optional string (message.content): None and "" are falsy.
Truthy(c) == c # None /\ c[1] # <<>>

\* ------------------------------------------------------ tool arguments

\* A value of tool_call.function.arguments / of json.loads: a str (raw), a dict
\* or a list.  Only the field selected by type is meaningful.
NoDict == [none |-> "none"]
PyStr(raw) == [type |-> "str", raw |-> raw, dict |-> NoDict]
PyDict(d) == [type |-> "dict", raw |-> "", dict |-> d]
PyList == [type |-> "list", raw |-> "", dict |-> NoDict]

TopicDict == [topic |-> "superconductors"]
PaperDict == [paper_id |-> "1234.5678"]

JsonTopic == "{\"topic\": \"superconductors\"}"
JsonArray == "[1]"
JsonBroken == "{topic: "

\* json.loads raises JSONDecodeError on text that is not JSON.
JsonValid(raw) == raw \in {JsonTopic, JsonArray}

\* json.loads
JsonLoads(raw) ==
  IF raw = JsonTopic THEN PyDict(TopicDict) ELSE PyList

\* str(tool_args.get("topic")) as the f-string renders it
TopicOf(args) ==
  IF "topic" \in DOMAIN args.dict THEN args.dict["topic"] ELSE "None"

\* ---------------------------------------------------------- tool catalog

\* Tool descriptors as client.list_tools() returns them.
SearchPapers ==
  [name |-> "search_papers",
   description |-> "Search for academic papers on a specific topic.",
   inputSchema |-> "{topic: string}"]

ExtractInfo ==
  [name |-> "extract_info",
   description |-> "Extract detailed information about a specific paper.",
   inputSchema |-> "{paper_id: string}"]

\* The catalogs the tool server may answer list_tools() with.
Catalogs == {<<>>, <<SearchPapers, ExtractInfo>>}

\* The schemas built in reverse catalog order.
GroqToolsReversed(catalog) ==
  [i \in 1..Len(catalog) |->
     [type |-> "function",
      function |-> [name |-> catalog[Len(catalog) + 1 - i].name,
                    description |-> catalog[Len(catalog) + 1 - i].description,
                    parameters |-> catalog[Len(catalog) + 1 - i].inputSchema]]]

\* groq_tools: one function schema per tool descriptor, in catalog order.
GroqTools(catalog) ==
  [i \in 1..Len(catalog) |->
     [type |-> "function",
      function |-> [name |-> catalog[i].name,
                    description |-> catalog[i].description,
                    parameters |-> catalog[i].inputSchema]]]

\* ------------------------------------------------- completion responses

\* tool_call.function: a name and its arguments (a JSON string, or a dict).
ToolCall(name, arguments) == [name |-> name, arguments |-> arguments]

ToolCallKinds ==
  {ToolCall("search_papers", PyStr(JsonTopic)),
   ToolCall("bogus_tool", PyDict(PaperDict)),
   ToolCall("search_papers", PyStr(JsonBroken)),
   ToolCall("search_papers", PyStr(JsonArray))}

RECURSIVE SeqsUpTo(_, _)
SeqsUpTo(S, n) ==
  IF n = 0 THEN {<<>>}
  ELSE LET shorter == SeqsUpTo(S, n - 1)
       IN shorter \cup {Append(q, x) : q \in shorter, x \in S}

\* message.content of a completion: None, "" or text.
Contents == {None, Some(<<>>), Some(<<" ", "a">>), Some(<<"b", " ">>)}

FinishReasons == {"stop", "tool_calls", "length"}

\* response.choices[0]: finish_reason, message.content, message.tool_calls
\* (None and [] are both the empty tuple: the code only tests truthiness).
Choice(finish_reason, content, calls) ==
  [finish_reason |-> finish_reason, content |-> content, tool_calls |-> calls]

\* What the completion endpoint may answer the first call of a query with.
FirstResponses ==
  {Choice(f, c, <<>>) : f \in FinishReasons, c \in Contents}
  \cup {Choice("tool_calls", c, calls) :
          c \in Contents, calls \in SeqsUpTo(ToolCallKinds, MaxToolCalls)}

\* What it may answer a follow-up call with: text, a cut-off, or one more
\* tool request.
NextResponses ==
  {Choice(f, c, <<>>) : f \in {"stop", "length"}, c \in Contents}
  \cup {Choice("tool_calls", c, <<ToolCall("search_papers", PyStr(JsonTopic))>>) :
          c \in Contents}

\* The answer slot of a completion call that raised.
Raised == Choice("raised", None, <<>>)

\* ------------------------------------------------------- tool results

TextBlock == [type |-> "text", text |-> "[1234.5678]"]
ImageBlock == [type |-> "image", data |-> "base64"]

\* result.content of a call_tool() that returned.
ToolResults == {<<>>, <<TextBlock>>, <<ImageBlock>>}

\* result.content[0].text is an IndexError on an empty content list and an
\* AttributeError on a block without text.
FirstTextError(content) ==
  IF content = <<>> THEN "IndexError"
  ELSE IF content[1].type # "text" THEN "AttributeError"
  ELSE ""

\* ------------------------------------------------------------ messages

SystemPrompt == <<"system_prompt">>

Message(role, content) == [role |-> role, content |-> content]

\* A history seeded without the system preamble.
SeedMessagesNoPreamble(query) == <<Message("user", query)>>

\* messages as process_query seeds them
SeedMessages(query) ==
  <<Message("system", SystemPrompt), Message("user", query)>>

\* assistant_prompt: the f-string template with result.content[0].text and
\* tool_args.get("topic") filled in.
AssistantPrompt(text, topic) ==
  <<"If you used the 'search_papers' tool, you should have a list of paper IDs in ",
    text,
    " The assistant has just retrieved information from a specialized tool in ",
    text,
    " Relevance to the topic ", topic,
    " Overview of the current state of research in ", topic,
    " high-level synthesis of the research landscape in ", topic>>

\* A steering message that leaves the tool result out.
SteeringMessageNoResult(content, args) ==
  Message("assistant", AssistantPrompt("", TopicOf(args)))

SteeringMessage(content, args) ==
  Message("assistant", AssistantPrompt(content[1].text, TopicOf(args)))

\* A history that keeps its length: the new message overwrites the last one.
AppendSteeringOverwrite(msgs, content, args) ==
  [msgs EXCEPT ![Len(msgs)] = SteeringMessage(content, args)]

\* messages.append({"role": "assistant", "content": assistant_prompt})
AppendSteering(msgs, content, args) ==
  Append(msgs, SteeringMessage(content, args))

\* The first answer kept whatever its finish_reason.
FirstFinalTextAnyFinish(choice) ==
  IF Truthy(choice.content) THEN <<choice.content[1]>> ELSE <<>>

\* final_text after the first response: its content, when finish_reason is
\* "stop" and the content is truthy.
FirstFinalText(choice) ==
  IF choice.finish_reason = "stop" /\ Truthy(choice.content)
    THEN <<choice.content[1]>>
    ELSE <<>>

\* final_text after a follow-up response: its content, when truthy.
NextFinalText(ft, choice) ==
  IF Truthy(choice.content) THEN Append(ft, choice.content[1]) ELSE ft

\* return "".join(final_text).strip()
ReturnValue(ft) == Strip(Join(ft))

\* ---------------------------------------------------------- user input

Quit == <<"q", "u", "i", "t">>

\* Lines input() may return.
Lines == {Quit, <<" ", "Q", "u", "i", "t", " ">>, <<" ", "h", "i">>}

\* --------------------------------------------------------------- state

VARIABLES
  pc,          \* where the session is: "start" (connect_and_chat before
               \* chat_loop), "input" (chat_loop at input()),
               \* "list_tools", "create", "call_tool", "create_next" (process_query
               \* at that await), "except" (chat_loop's handler after input()
               \* raised), "exited"
  connection,  \* the fastmcp Client context: "unopened", "open", "released"
  messages,    \* process_query: messages
  groq_tools,  \* process_query: groq_tools
  final_text,  \* process_query: final_text
  tool_calls,  \* process_query: message.tool_calls of the first response
  idx,         \* process_query: position of the for loop in tool_calls
  trace,       \* the calls the current query made to the two endpoints, in order
  status,      \* how the last query ended: "idle", "running", "returned", "raised",
               \* "interrupted"
  answer,      \* what chat_loop printed as the response: None or Some(text)
  error,       \* the exception chat_loop printed, "" when none
  tools,       \* process_query: tools, as list_tools() returned them
  queries,     \* number of queries chat_loop has passed to process_query
  list_calls,  \* number of list_tools() calls made to the tool server
  ended,       \* why the session ended: "" while it runs, then "quit",
               \* "error" or "interrupt"
  stdin        \* the stream input() reads: "open", or "closed" once it has ended
               \* for good

vars ==
  <<pc, connection, messages, groq_tools, final_text, tool_calls, idx, trace,
    status, answer, error, tools, queries, list_calls, ended, stdin>>

locals == <<messages, groq_tools, final_text, tool_calls, idx, tools>>

\* One call of groq.chat.completions.create: the messages and tools it was
\* given and the choice it answered with (Raised when it raised).
CreateEvent(msgs, gtools, choice) ==
  [op |-> "create", messages |-> msgs, tools |-> gtools, choice |-> choice]

\* One call of client.call_tool: its name and arguments, whether it returned.
CallToolEvent(name, args, ok) ==
  [op |-> "call_tool", name |-> name, arguments |-> args, ok |-> ok]

Init ==
  /\ pc = "start"
  /\ connection = "unopened"
  /\ messages = <<>>
  /\ groq_tools = <<>>
  /\ final_text = <<>>
  /\ tool_calls = <<>>
  /\ idx = 0
  /\ trace = <<>>
  /\ status = "idle"
  /\ answer = None
  /\ error = ""
  /\ tools = <<>>
  /\ queries = 0
  /\ list_calls = 0
  /\ ended = ""
  /\ stdin = "open"

\* The locals of process_query are gone once it has returned or raised.
Discard ==
  /\ messages' = <<>>
  /\ groq_tools' = <<>>
  /\ final_text' = <<>>
  /\ tool_calls' = <<>>
  /\ idx' = 0
  /\ tools' = <<>>

\* chat_loop: print("\nClaude response:", response), then the next iteration.
ChatLoopPrint(text) ==
  /\ pc' = "input"
  /\ status' = "returned"
  /\ answer' = Some(text)
  /\ error' = ""

\* No handler: the exception leaves chat_loop and ends the session.
ChatLoopExceptPropagates(err) ==
  /\ pc' = "exited"
  /\ status' = "raised"
  /\ answer' = None
  /\ error' = err

\* chat_loop: except Exception as e: print(f"\nError: {e}"), then the next
\* iteration.
ChatLoopExcept(err) ==
  /\ pc' = "input"
  /\ status' = "raised"
  /\ answer' = None
  /\ error' = err

\* The connection stays open when its block is left.
AsyncWithLeaks == connection' = connection

\* connect_and_chat: leaving the block of async with self.client, by its end
\* or by an exception, closes the connection.
AsyncWithExit == connection' = "released"

\* process_query returns text to chat_loop.
Returns(text) ==
  ChatLoopPrint(text) /\ Discard /\ UNCHANGED <<connection, queries, ended>>

\* An exception leaves process_query and reaches chat_loop's handler.
Raises(err) ==
  ChatLoopExcept(err) /\ Discard /\ UNCHANGED <<connection, queries, ended>>

\* The completion call is made again after it raised.
CreateFailsRetry ==
  /\ trace' = Append(trace, CreateEvent(messages, groq_tools, Raised))
  /\ UNCHANGED <<pc, connection, locals, status, answer, error, queries, ended>>

\* groq.chat.completions.create raised: nothing catches it in process_query.
CreateFails ==
  /\ trace' = Append(trace, CreateEvent(messages, groq_tools, Raised))
  /\ Raises("APIError")

\* -------------------------------------------------------------- actions

\* connect_and_chat: Client(config), then async with self.client awaits the
\* connection.  When it cannot be made the exception leaves through main's
\* finally with nothing opened.
Connect ==
  /\ pc = "start"
  /\ connection = "unopened"
  /\ \E ok \in BOOLEAN :
       IF ok
         THEN /\ pc' = "start"
              /\ connection' = "open"
              /\ UNCHANGED <<error, ended>>
         ELSE /\ pc' = "exited"
              /\ connection' = "unopened"
              /\ error' = "McpError"
              /\ ended' = "error"
  /\ UNCHANGED <<locals, trace, status, answer, queries, list_calls, stdin>>

\* connect_and_chat, inside the async with: tools = await list_tools(), whose
\* result is printed, then chat_loop begins.  A failure leaves the block,
\* which releases the connection.
ConnectListTools ==
  /\ pc = "start"
  /\ connection = "open"
  /\ \E ok \in BOOLEAN :
       IF ok
         THEN /\ pc' = "input"
              /\ error' = ""
              /\ ended' = ""
              /\ UNCHANGED connection
         ELSE /\ pc' = "exited"
              /\ AsyncWithExit
              /\ error' = "McpError"
              /\ ended' = "error"
  /\ list_calls' = list_calls + 1
  /\ UNCHANGED <<locals, trace, status, answer, queries, stdin>>

\* chat_loop: input() returned a line.  "quit" (stripped, lower-cased) breaks
\* the loop, which ends connect_and_chat and releases the connection; any
\* other line starts process_query, which seeds messages and awaits
\* list_tools().
ReadQuery(line) ==
  /\ pc = "input"
  /\ stdin = "open"
  /\ UNCHANGED stdin
  /\ LET query == Strip(line)
     IN IF Lower(query) = Quit
          THEN /\ pc' = "exited"
               /\ AsyncWithExit
               /\ ended' = "quit"
               /\ UNCHANGED <<locals, trace, status, answer, error, queries,
                              list_calls>>
          ELSE /\ queries < MaxQueries
               /\ pc' = "list_tools"
               /\ queries' = queries + 1
               /\ messages' = SeedMessages(query)
               /\ trace' = <<>>
               /\ status' = "running"
               /\ answer' = None
               /\ error' = ""
               /\ UNCHANGED <<connection, groq_tools, final_text, tool_calls, idx,
                              tools, list_calls, ended>>

\* chat_loop: input() raised EOFError: the stream is at its end, for this one
\* read (an end-of-file typed at a terminal) or for good (a closed stream,
\* where every further read fails too).
ReadFails ==
  /\ pc = "input"
  /\ pc' = "except"
  /\ \E now \in {"open", "closed"} :
       /\ stdin = "closed" => now = "closed"
       /\ stdin' = now
  /\ UNCHANGED <<connection, locals, trace, status, answer, error, queries,
                 list_calls, ended>>

\* chat_loop: the handler of the failed read prints the error and the loop
\* goes on to the next input().
ReportReadFailure ==
  /\ pc = "except"
  /\ ChatLoopExcept("EOFError")
  /\ trace' = <<>>
  /\ UNCHANGED <<connection, locals, queries, list_calls, ended, stdin>>

\* A KeyboardInterrupt or a cancellation is raised in the session: while it
\* waits (for the connection, for list_tools(), for input(), for an
\* endpoint), between two waits, or in chat_loop's handler.  It is no
\* Exception, so chat_loop's handler lets it pass: it leaves the async with
\* block, when that was entered, and main.  Where list_tools() is the next
\* call, the interrupt comes before the call is made or while it is waited
\* for.
Interrupt ==
  /\ pc \in {"start", "input", "except", "list_tools", "create", "call_tool",
             "create_next"}
  /\ pc' = "exited"
  /\ IF connection = "open" THEN AsyncWithExit ELSE UNCHANGED connection
  /\ IF connection = "open" /\ pc \in {"start", "list_tools"}
       THEN \E made \in BOOLEAN :
              list_calls' = IF made THEN list_calls + 1 ELSE list_calls
       ELSE UNCHANGED list_calls
  /\ ended' = "interrupt"
  /\ status' = "interrupted"
  /\ answer' = None
  /\ error' = ""
  /\ trace' = <<>>
  /\ Discard
  /\ UNCHANGED <<queries, stdin>>

\* process_query: tools = await self.client.list_tools(), then groq_tools.
ListTools ==
  /\ pc = "list_tools"
  /\ \E ok \in BOOLEAN, catalog \in Catalogs :
       IF ok
         THEN /\ pc' = "create"
              /\ tools' = catalog
              /\ groq_tools' = GroqTools(catalog)
              /\ UNCHANGED <<connection, messages, final_text, tool_calls, idx,
                             status, answer, error, queries, ended>>
         ELSE Raises("McpError")
  /\ list_calls' = list_calls + 1
  /\ UNCHANGED <<trace, stdin>>

\* process_query: the initial completion call and the branch on its choice.
CreateInitial ==
  /\ pc = "create"
  /\ \E ok \in BOOLEAN, choice \in FirstResponses :
       IF ~ok
         THEN CreateFails
         ELSE /\ trace' = Append(trace, CreateEvent(messages, groq_tools, choice))
              /\ IF choice.finish_reason = "stop" /\ Truthy(choice.content)
                   THEN Returns(ReturnValue(FirstFinalText(choice)))
                   ELSE IF choice.finish_reason = "tool_calls"
                           /\ choice.tool_calls # <<>>
                   THEN /\ pc' = "call_tool"
                        /\ tool_calls' = choice.tool_calls
                        /\ idx' = 1
                        /\ final_text' = FirstFinalText(choice)
                        /\ UNCHANGED <<connection, messages, groq_tools, status,
                                       answer, error, tools, queries, ended>>
                   ELSE Returns(ReturnValue(FirstFinalText(choice)))
  /\ UNCHANGED <<list_calls, stdin>>

\* process_query, one pass of the for loop up to messages.append: the
\* arguments are parsed when they are a str, the tool is called, the prompt
\* is built from result.content[0].text and tool_args.get("topic").
CallTool ==
  /\ pc = "call_tool"
  /\ LET call == tool_calls[idx]
         raw == call.arguments
     IN IF raw.type = "str" /\ ~JsonValid(raw.raw)
          THEN /\ Raises("JSONDecodeError")
               /\ UNCHANGED trace
          ELSE LET args == IF raw.type = "str" THEN JsonLoads(raw.raw) ELSE raw
               IN \E ok \in BOOLEAN, content \in ToolResults :
                    /\ trace' = Append(trace, CallToolEvent(call.name, args, ok))
                    /\ IF ~ok
                         THEN Raises("ToolError")
                         ELSE IF FirstTextError(content) # ""
                           THEN Raises(FirstTextError(content))
                         ELSE IF args.type # "dict"
                           THEN Raises("AttributeError")
                         ELSE /\ messages' = AppendSteering(messages, content, args)
                              /\ pc' = "create_next"
                              /\ UNCHANGED <<connection, groq_tools, final_text,
                                             tool_calls, idx, status, answer, error,
                                             tools, queries, ended>>
  /\ UNCHANGED <<list_calls, stdin>>

\* process_query, the rest of the pass: the follow-up completion call, its
\* content added to final_text; after the last tool call the function returns.
CreateNext ==
  /\ pc = "create_next"
  /\ \E ok \in BOOLEAN, choice \in NextResponses :
       IF ~ok
         THEN CreateFails
         ELSE /\ trace' = Append(trace, CreateEvent(messages, groq_tools, choice))
              /\ IF idx < Len(tool_calls)
                   THEN /\ pc' = "call_tool"
                        /\ idx' = idx + 1
                        /\ final_text' = NextFinalText(final_text, choice)
                        /\ UNCHANGED <<connection, messages, groq_tools,
                                       tool_calls, status, answer, error, tools,
                                       queries, ended>>
                   ELSE Returns(ReturnValue(NextFinalText(final_text, choice)))
  /\ UNCHANGED <<list_calls, stdin>>

Next ==
  \/ Connect
  \/ ConnectListTools
  \/ \E line \in Lines : ReadQuery(line)
  \/ ReadFails
  \/ ReportReadFailure
  \/ Interrupt
  \/ ListTools
  \/ CreateInitial
  \/ CallTool
  \/ CreateNext

Spec == Init /\ [][Next]_vars

\* The interpreter keeps running chat_loop: a read of a closed stream fails
\* at once and its handler runs.  Nothing is assumed of the user or of the
\* endpoints: on an open stream input() may block for ever.
SpecFair ==
  /\ Spec
  /\ WF_vars(stdin = "closed" /\ ReadFails)
  /\ WF_vars(ReportReadFailure)

\* ------------------------------------------------ reading the call trace

IsCallTool(e) == e.op = "call_tool"

IsPrefix(s, t) == Len(s) <= Len(t) /\ SubSeq(t, 1, Len(s)) = s

\* Positions of the completion calls of the current query.
Creates == {p \in 1..Len(trace) : trace[p].op = "create"}

\* Position of the completion call that follows position p, or one past the
\* end of the trace when none does.
NextCreate(p) ==
  LET later == {q \in Creates : q > p}
  IN IF later = {} THEN Len(trace) + 1
     ELSE CHOOSE q \in later : \A r \in later : q <= r

\* Names of the tools called at positions lo..hi, in call order.
CallNames(lo, hi) ==
  LET calls == SelectSeq(SubSeq(trace, lo, hi), IsCallTool)
  IN [i \in 1..Len(calls) |-> calls[i].name]

\* Names of the tools a choice requests, in the order the model gave them.
Requested(choice) ==
  [i \in 1..Len(choice.tool_calls) |-> choice.tool_calls[i].name]

\* The choice asks for tools.
RequestsTools(choice) ==
  choice.finish_reason = "tool_calls" /\ choice.tool_calls # <<>>

\* The choice obeys the tagged union: tool calls under "tool_calls", text
\* under "stop".
WellFormed(choice) ==
  \/ RequestsTools(choice)
  \/ choice.finish_reason = "stop" /\ Truthy(choice.content)

\* The last completion answer of the current query.
LastChoice == trace[Len(trace)].choice

\* --------------------------------------------------------------- claims

\* C1: for every completion response that requests n >= 1 tools, the tool
\* calls made before the next completion call are exactly the n requested
\* ones, in the order the model returned them, each with its result message
\* in the history of that next call.
C1_AllToolsBeforeNextCompletion ==
  \A p \in Creates :
    LET q == NextCreate(p)
    IN (RequestsTools(trace[p].choice) /\ q <= Len(trace)) =>
         /\ CallNames(p + 1, q - 1) = Requested(trace[p].choice)
         /\ Len(trace[q].messages)
              >= Len(trace[p].messages) + Len(trace[p].choice.tool_calls)

\* C2: when process_query has returned on well-formed responses, every
\* response that requested tools had them executed before the next completion
\* call or the return, and the response seen last has finish_reason "stop".
C2_LoopsUntilStop ==
  (status = "returned" /\ \A p \in Creates : WellFormed(trace[p].choice)) =>
    /\ \A p \in Creates :
         RequestsTools(trace[p].choice) =>
           CallNames(p + 1, NextCreate(p) - 1) = Requested(trace[p].choice)
    /\ LastChoice.finish_reason = "stop"

\* C3: a tool invocation that fails never ends the query with that failure:
\* the query is still running or has returned text.
C3_ToolFailureNeverAborts ==
  \A p \in 1..Len(trace) :
    (IsCallTool(trace[p]) /\ ~trace[p].ok) =>
      ~(status = "raised" /\ error = "ToolError")

\* C4: the tool executor is never called with a name that is not in the
\* catalog of the query.
C4_UnknownToolNotExecuted ==
  \A p \in 1..Len(trace) :
    IsCallTool(trace[p]) =>
      trace[p].name \in
        {trace[1].tools[i].function.name : i \in 1..Len(trace[1].tools)}

\* C5: arguments that cannot be parsed never end the query: no query ends
\* with the parse error.
C5_ParseFailureNotFatal ==
  ~(status = "raised" /\ error = "JSONDecodeError")

\* A completion call that answered with truthy content.
HasText(e) == e.op = "create" /\ Truthy(e.choice.content)

TextsOf(events) ==
  LET es == SelectSeq(events, HasText)
  IN [i \in 1..Len(es) |-> es[i].choice.content[1]]

\* The text of every completion response of the query, in turn order.
AllFragments == TextsOf(trace)

\* The text of the first response when it stopped, then the text of every
\* follow-up response.
KeptFragments ==
  (IF HasText(trace[1]) /\ trace[1].choice.finish_reason = "stop"
     THEN <<trace[1].choice.content[1]>>
     ELSE <<>>)
  \o TextsOf(Tail(trace))

\* Everything the orchestrator itself wrote into a history it sent: the
\* pieces of the system preamble and of the steering messages (which embed
\* the tool results).
OwnPieces(msgs) ==
  UNION {{msgs[m].content[i] : i \in 1..Len(msgs[m].content)} :
         m \in {k \in 1..Len(msgs) : msgs[k].role \in {"system", "assistant"}}}

OrchestratorText == UNION {OwnPieces(trace[p].messages) : p \in Creates}

NoLeak ==
  \A i \in 1..Len(answer[1]) : answer[1][i] \notin OrchestratorText

\* C6 as claimed, on well-formed responses: the returned text is the trimmed
\* concatenation, in turn order, of the text of every completion response,
\* and none of the orchestrator's own text is in it.
C6_AnswerIsAllModelText ==
  (status = "returned" /\ \A p \in Creates : WellFormed(trace[p].choice)) =>
    /\ answer = Some(Strip(Join(AllFragments)))
    /\ NoLeak

\* C6 as amended: the returned text is the trimmed concatenation, in turn
\* order, of the first response's text when its finish_reason is "stop" and
\* of every follow-up response's text; none of the orchestrator's own text is
\* in it.
C6_AnswerIsKeptModelText ==
  status = "returned" =>
    /\ answer = Some(Strip(Join(KeptFragments)))
    /\ NoLeak

\* A query returned two fragments of follow-up responses, trimmed.
C6_Witness ==
  /\ status = "returned"
  /\ Len(KeptFragments) = 2
  /\ KeptFragments[1] # KeptFragments[2]
  /\ answer # Some(Join(KeptFragments))
  /\ answer = Some(Strip(Join(KeptFragments)))

\* C7: the history given to a completion call extends the history given to
\* every earlier completion call of the query, it is the whole of messages,
\* and messages only grows from it.
C7_HistoryAppendOnly ==
  /\ \A p \in Creates, q \in Creates :
       p <= q => IsPrefix(trace[p].messages, trace[q].messages)
  /\ status = "running" =>
       \A p \in Creates : IsPrefix(trace[p].messages, messages)
  /\ pc = "call_tool" => trace[Len(trace)].messages = messages

\* Three completion calls of one query, each with a longer history.
C7_Witness ==
  /\ Cardinality(Creates) = 3
  /\ \A p \in Creates, q \in Creates :
       p < q => Len(trace[p].messages) < Len(trace[q].messages)

\* C8: every tool invocation has added two messages (the tool result, then
\* the steering instruction) to the history the next completion call gets.
C8_ResultThenSteering ==
  \A p \in Creates :
    Len(trace[p].messages) >= 2 + 2 * Len(CallNames(1, p - 1))

\* C9: a query whose model requested tools in every response does not end
\* as an ordinary return: it ends by the maximum-turn guard, as
\* MaxTurnsExceededError.
C9_EndsByStopOrGuard ==
  (status = "returned" /\ \A p \in Creates : RequestsTools(trace[p].choice)) =>
    error = "MaxTurnsExceededError"

\* C10: a step in which a running query fails leaves the session at its
\* prompt with the connection open and nothing of the query kept, and the
\* next query starts from a history seeded by its own line alone.
C10_FailureIsolated ==
  /\ [][(status = "running" /\ status' = "raised") =>
          /\ pc' = "input"
          /\ connection' = "open"
          /\ messages' = <<>> /\ final_text' = <<>> /\ tool_calls' = <<>>
          /\ groq_tools' = <<>> /\ idx' = 0]_vars
  /\ [][(pc = "input" /\ pc' = "list_tools") =>
          /\ \E line \in Lines : messages' = SeedMessages(Strip(line))
          /\ trace' = <<>> /\ final_text' = <<>> /\ tool_calls' = <<>>
          /\ groq_tools' = <<>> /\ idx' = 0
          /\ status' = "running" /\ error' = ""]_vars

\* A completion failure in the middle of the tool loop was reported and the
\* session waits for the next query.
C10_Witness ==
  /\ status = "raised"
  /\ error = "APIError"
  /\ pc = "input"
  /\ connection = "open"
  /\ Cardinality(Creates) = 2

\* A history as a query is seeded with: the system preamble, then one user
\* message holding a stripped input line.
IsSeed(msgs) ==
  /\ Len(msgs) = 2
  /\ msgs[1] = Message("system", SystemPrompt)
  /\ msgs[2].role = "user"
  /\ msgs[2].content \in {Strip(line) : line \in Lines}

\* C11: every query, the first of a session or a later one, starts from a
\* history of exactly the system preamble and its own user message: the
\* history it has before its first completion call, and the one that call is
\* given, hold nothing else.
C11_FreshHistory ==
  /\ pc \in {"list_tools", "create"} => IsSeed(messages)
  /\ trace # <<>> => IsSeed(trace[1].messages)

\* The second query of a session makes its first completion call.
C11_Witness ==
  /\ queries = 2
  /\ pc = "call_tool"
  /\ Len(trace) = 1
  /\ IsSeed(trace[1].messages)

\* C12: a completion call that raised is the last call of its query (no
\* retry, no further tool or completion call) and the query has ended with
\* that failure; the completion endpoint is called once at the start and once
\* per tool invocation, never more.
C12_CompletionFailureAborts ==
  /\ \A p \in Creates :
       trace[p].choice = Raised =>
         /\ p = Len(trace)
         /\ status = "raised"
         /\ error = "APIError"
  /\ Cardinality(Creates) <= 1 + Len(CallNames(1, Len(trace)))

\* The follow-up completion call after the second tool raised.
C12_Witness ==
  /\ Len(trace) = 5
  /\ trace[5].op = "create"
  /\ trace[5].choice = Raised
  /\ status = "raised"

\* The choice breaks the tagged union: "stop" without text, or "tool_calls"
\* without tool calls.
Malformed(choice) ==
  \/ choice.finish_reason = "stop" /\ ~Truthy(choice.content)
  \/ choice.finish_reason = "tool_calls" /\ choice.tool_calls = <<>>

\* C13: process_query never returns normally on a first response that breaks
\* the tagged union.
C13_MalformedResponseIsError ==
  ~(status = "returned" /\ Malformed(trace[1].choice))

\* C14: the connection is opened once, in connect_and_chat before the first
\* prompt; it is open whenever the session reads or processes a query; it is
\* not open once the session has ended (by the sentinel, an error or an
\* interrupt); it changes only from unopened to open at the start and from
\* open to released as the session ends, so a released connection is never
\* opened again.
C14_ConnectionScoped ==
  /\ [](pc \in {"input", "except", "list_tools", "create", "call_tool",
                "create_next"}
          => connection = "open")
  /\ [](pc = "start" => connection \in {"unopened", "open"} /\ queries = 0)
  /\ [](pc = "exited" =>
          /\ ended \in {"quit", "error", "interrupt"}
          /\ connection \in {"unopened", "released"}
          /\ connection = "unopened" => queries = 0 /\ list_calls = 0)
  /\ [][connection' # connection =>
          \/ connection = "unopened" /\ connection' = "open" /\ pc = "start"
          \/ connection = "open" /\ connection' = "released" /\ pc' = "exited"]_vars

\* An interrupt ended the session after a query was read and the connection
\* was released.
C14_Witness ==
  /\ pc = "exited"
  /\ ended = "interrupt"
  /\ status = "interrupted"
  /\ connection = "released"
  /\ queries = 1

\* The spellings of the sentinel in the input lines, stripped.
SentinelSpellings == {<<"q", "u", "i", "t">>, <<"Q", "u", "i", "t">>}

\* C15: the sentinel, in any case and with any padding, is never the user
\* message of a query; the session ends by the sentinel only from the prompt,
\* never while a query is in progress, and a query in progress leaves only by
\* returning, by failing or by an interrupt.
C15_SentinelOnlyAtPrompt ==
  /\ [](status = "running" => messages[2].content \notin SentinelSpellings)
  /\ [][ended' = "quit" /\ ended = "" => pc = "input" /\ status # "running"]_vars
  /\ [][status = "running" /\ status' # "running" =>
          status' \in {"returned", "raised", "interrupted"}]_vars

\* The user ended the session with the sentinel after two queries.
C15_Witness ==
  /\ pc = "exited"
  /\ ended = "quit"
  /\ queries = 2
  /\ status = "returned"

\* C16: list_tools is called once in a session, at connect time, whatever the
\* number of queries processed.
C16_CatalogFetchedOnce == list_calls <= 1

\* C17: the calls of a query form one sequence in which a tool call comes
\* only after a completion call that answered, every step adds at most one
\* call to it, and the completion call after a tool call that returned is
\* given the history of the completion call before it plus one assistant
\* message, written by the orchestrator, that embeds the tool's result.
C17_StrictlySequential ==
  /\ [](\A p \in 1..Len(trace) :
          IsCallTool(trace[p]) =>
            /\ p > 1
            /\ trace[p - 1].op = "create"
            /\ trace[p - 1].choice # Raised
            /\ p < Len(trace) =>
                 /\ trace[p].ok
                 /\ trace[p + 1].op = "create"
                 /\ trace[p + 1].messages =
                      Append(trace[p - 1].messages,
                             Message("assistant",
                                     AssistantPrompt(TextBlock.text,
                                                     TopicOf(trace[p].arguments)))))
  /\ [][trace' # trace =>
          \/ trace' = <<>>
          \/ Len(trace') = Len(trace) + 1 /\ IsPrefix(trace, trace')]_vars

\* Two tool calls, each between two completion calls, and the query returned.
C17_Witness ==
  /\ Len(trace) = 5
  /\ IsCallTool(trace[2]) /\ IsCallTool(trace[4])
  /\ Len(trace[5].messages) = 4
  /\ status = "returned"

\* C18: while a query runs past list_tools, groq_tools holds one entry per
\* tool of the catalog, in catalog order, of type "function" with the name,
\* the description and the input schema of that tool; an empty catalog gives
\* an empty list; every completion call of the query is given that same list.
C18_SchemaFollowsCatalog ==
  pc \in {"create", "call_tool", "create_next"} =>
    /\ Len(groq_tools) = Len(tools)
    /\ \A i \in 1..Len(tools) :
         /\ groq_tools[i].type = "function"
         /\ groq_tools[i].function.name = tools[i].name
         /\ groq_tools[i].function.description = tools[i].description
         /\ groq_tools[i].function.parameters = tools[i].inputSchema
    /\ tools = <<>> => groq_tools = <<>>
    /\ \A p \in Creates : trace[p].tools = groq_tools

\* A completion call was given the schema of a catalog of two tools.
C18_Witness ==
  /\ pc = "call_tool"
  /\ Len(tools) = 2
  /\ tools[1] # tools[2]
  /\ Len(trace) = 1
  /\ Len(trace[1].tools) = 2

\* C19: once the query has ended, every tool call that returned is followed in
\* the query's calls by a completion call, whose history embeds the result.
C19_EveryResultRecorded ==
  status \in {"returned", "raised"} =>
    \A p \in 1..Len(trace) :
      (IsCallTool(trace[p]) /\ trace[p].ok) =>
        /\ p < Len(trace)
        /\ trace[p + 1].op = "create"
        /\ Len(trace[p + 1].messages) = Len(trace[p - 1].messages) + 1

\* The first response of the query ended neither by "stop" nor by
\* "tool_calls".
FirstIsOther ==
  /\ trace # <<>>
  /\ trace[1].choice # Raised
  /\ trace[1].choice.finish_reason \notin {"stop", "tool_calls"}

\* C20 as stated: a first response that ended by another finish reason makes
\* process_query return its text, stripped.
C20_OtherFinishKeepsText ==
  (status = "returned" /\ FirstIsOther /\ Truthy(trace[1].choice.content)) =>
    answer = Some(Strip(trace[1].choice.content[1]))

\* C20, amended: a first response that ended by another finish reason is the
\* only call of the query, it was given the seeded history, and
\* process_query returned the empty string: the text of the response is
\* dropped.
C20_OtherFinishReturnsEmpty ==
  /\ FirstIsOther =>
       /\ Len(trace) = 1
       /\ IsSeed(trace[1].messages)
       /\ status = "returned"
       /\ answer = Some(<<>>)
  /\ (status = "returned" /\ answer # Some(<<>>)) =>
       \/ trace[1].choice.finish_reason = "stop"
       \/ Len(trace) > 1

\* A response cut off by "length" that carried text was answered with the
\* empty string.
C20_Witness ==
  /\ FirstIsOther
  /\ trace[1].choice.finish_reason = "length"
  /\ Truthy(trace[1].choice.content)
  /\ status = "returned"
  /\ answer = Some(<<>>)

\* C21: once the input stream is closed, chat_loop eventually exits.
C21_ExitsWhenInputCloses == (stdin = "closed") ~> (pc = "exited")

====
